---- MODULE Spec2Model ----
(***************************************************************************)
(* Model of the Faster-Whisper WebSocket transcription server              *)
(* (backend/transcription_server.py).  Every connection is served by one   *)
(* coroutine, transcribe_audio, on a single asyncio event loop.  The       *)
(* engine call (transcribe_audio_file) and the converter call              *)
(* (convert_audio_to_wav) are plain synchronous calls made from inside the *)
(* coroutine: while one of them is in flight the coroutine holds the       *)
(* event loop.  Clients either connect alone and stream up to MaxChunks    *)
(* chunks, or connect in a pair and share a small budget of frames.        *)
(*                                                                         *)
(* Four further specifications share the module.  SegSpec follows one call *)
(* of transcribe_audio_file from the point where the engine has returned   *)
(* its segments: the speaker labelling and the merge pass.  VoskSpec       *)
(* follows one connection of the Vosk server                               *)
(* (backend/transcription_server_vosk.py), which keeps a recognition       *)
(* language per connection.  NotesSpec follows the generate-notes and      *)
(* update-notes endpoints (backend/routers/notes_router.py) on one session *)
(* row, and SplitSpec one call of DatasetLoader.split_dataset              *)
(* (backend/training/dataset_loader.py).                                   *)
(***************************************************************************)
EXTENDS Integers, Sequences, FiniteSets, TLC

\* ---- bounds of the environment (the clients) ----
MaxChunks == 12    \* binary frames sent by a client that is alone
MaxText == 2       \* text frames sent by a client that is alone
PairChunks == 1    \* binary frames sent by two clients together
PairText == 1      \* text frames sent by two clients together
MaxInbox == 1      \* frames of one connection sent but not yet yielded

\* ---- program constants ----
Threshold == 10    \* "if len(audio_buffer) >= 10"

Conns == {1, 2}

None == "None"
Sentinel == "(No speech detected)"
Transcript == "Therapist: ..."

EngineOutcomes == {"raise", "empty", "segments"}
ConvertOutcomes == {"ok", "nonzero", "missing"}

VARIABLES
  clients,        \* the connections the server has accepted
  inbox,          \* frames the client has sent that "async for" has not yielded yet
  clientClosed,   \* the client has closed its end of the socket
  wsClosed,       \* the websockets library has processed the close
  chunksSent,     \* binary frames the client has sent so far
  textsSent,      \* text frames the client has sent so far
  pc,             \* position of the connection's coroutine
  running,        \* the connections (at most one) whose blocking call holds the event loop
  audio_buffer,   \* local audio_buffer of the coroutine
  out,            \* messages passed to websocket.send, in order
  calls,          \* blocking calls made (converter and engine), in order
  temp_files,     \* temporary files of the connection that exist on disk
  stopped,        \* "Recording stopped" has been printed for the connection
  closedInFlush,  \* the client closed while a streaming flush of its connection was in flight
  \* -- one call of transcribe_audio_file, after model.transcribe has returned --
  seg_pc,         \* position inside transcribe_audio_file
  all_segments,   \* "all_segments = list(segments)"
  text_parts,     \* one "Speaker: text" string per segment
  merged_parts,   \* one "Speaker: text" string per speaker turn
  seg_result,     \* what the call returns: the lines of "result", or the sentinel
  earlier_segments, \* the segments of the flush before this one on the connection
  \* -- one connection of the Vosk server (transcription_server_vosk.py) --
  vosk_pc,          \* position of the connection's coroutine
  vosk_inbox,       \* frames sent by the client, not yet yielded by "async for"
  vosk_sent,        \* frames the client has sent so far
  vosk_closed,      \* the connection is closed: a send raises ConnectionClosed
  current_language, \* local current_language of the coroutine
  recognizer,       \* local recognizer: the language of its model, the chunks fed to it
  vosk_out,         \* messages passed to websocket.send, in order
  \* -- one session row and the notes endpoints (routers/notes_router.py) --
  notes_pc,               \* "serving" while the endpoints are being followed
  original_transcription, \* session.original_transcription, as its stripped length
  notes,                  \* session.notes
  notes_is_ai_generated,  \* session.notes_is_ai_generated
  notes_edited_from_ai,   \* session.notes_edited_from_ai
  notes_generated_at,     \* session.notes_generated_at
  notes_last_edited_at,   \* session.notes_last_edited_at
  utcnow,                 \* what datetime.utcnow() returns, in requests served
  notes_response,         \* the last response of the endpoints
  \* -- one DatasetLoader (training/dataset_loader.py) --
  split_pc,       \* "loaded" before split_dataset, "split" after it
  df,             \* self.df: the rows read from the CSV file
  train_df,       \* the three data frames split_dataset returns
  val_df,
  test_df

handlerVars == <<clients, inbox, clientClosed, wsClosed, chunksSent, textsSent, pc, running,
                 audio_buffer, out, calls, temp_files, stopped, closedInFlush>>
segVars == <<seg_pc, all_segments, text_parts, merged_parts, seg_result, earlier_segments>>
voskVars == <<vosk_pc, vosk_inbox, vosk_sent, vosk_closed, current_language, recognizer,
              vosk_out>>
notesVars == <<notes_pc, original_transcription, notes, notes_is_ai_generated,
               notes_edited_from_ai, notes_generated_at, notes_last_edited_at, utcnow,
               notes_response>>
splitVars == <<split_pc, df, train_df, val_df, test_df>>
\* the state outside the two transcription servers
offlineVars == <<notesVars, splitVars>>
\* what the steps of the connection handler do not touch
notHandlerVars == <<segVars, voskVars, offlineVars>>

vars == <<handlerVars, segVars, voskVars, offlineVars>>

\* ---- frames ----
BytesFrame(n) == [kind |-> "bytes", seq |-> n, json |-> "-", type |-> "-", data |-> "-"]
TextFrame(j, t, d) == [kind |-> "text", seq |-> 0, json |-> j, type |-> t, data |-> d]

TextFrames ==
  { TextFrame("invalid", "-", "-"),
    TextFrame("nonobject", "-", "-"),
    TextFrame("object", "audio_file", "b64"),
    TextFrame("object", "audio_file", "notb64"),
    TextFrame("object", "stop", "-"),
    TextFrame("object", "set_language", "english"),
    TextFrame("object", "other", "-") }

\* ---- helpers ----
Last(s) == s[Len(s)]

RECURSIVE SumOver(_, _)
SumOver(S, f) ==
  IF S = {} THEN 0
  ELSE LET x == CHOOSE y \in S : TRUE IN f[x] + SumOver(S \ {x}, f)

SetLast(s, r) == [s EXCEPT ![Len(s)] = r]

\* mutant: the welcome message is sent with the type of a progress message
ConnectedMsg_processing ==
  [type |-> "processing", text |-> "-", mode |-> "multilingual",
   message |-> "Faster-Whisper multilingual transcription server ready"]

\* ---- messages the server sends (json.dumps payloads) ----
ConnectedMsg ==
  [type |-> "connected", text |-> "-", mode |-> "multilingual",
   message |-> "Faster-Whisper multilingual transcription server ready"]
PartialMsg(text) ==
  [type |-> "partial", text |-> text, mode |-> "-", message |-> "-"]
FinalMsg(text) ==
  [type |-> "final", text |-> text, mode |-> "-", message |-> "-"]
FileFinalMsg(text) ==
  [type |-> "final", text |-> text, mode |-> "multilingual", message |-> "-"]
ProcessingMsg(m) ==
  [type |-> "processing", text |-> "-", mode |-> "-", message |-> m]
ErrorMsg(m) ==
  [type |-> "error", text |-> "-", mode |-> "-", message |-> m]

\* ---- the pure parts of the handler ----
\* mutant: the threshold test written with > instead of >=
should_flush_strict(buf) == Len(buf) > Threshold

\* "if len(audio_buffer) >= 10"
should_flush(buf) == Len(buf) >= Threshold

\* mutant: an empty segment list is reported like a failure
transcribe_audio_file_empty_none(o) ==
  CASE o = "raise" -> None
    [] o = "empty" -> None
    [] o = "segments" -> Transcript

\* What transcribe_audio_file returns for each behaviour of model.transcribe:
\* an exception is caught and None returned, an empty segment list gives the
\* sentinel string, otherwise the speaker-labelled text.
transcribe_audio_file(o) ==
  CASE o = "raise" -> None
    [] o = "empty" -> Sentinel
    [] o = "segments" -> Transcript

\* What convert_audio_to_wav returns: the output path, or None when ffmpeg
\* exits non-zero or cannot be started.
convert_audio_to_wav(o) == IF o = "ok" THEN "converted.wav" ELSE None

\* Python truth value of a str-or-None result
Truthy(t) == t # None /\ t # ""

\* json.loads(message) followed by data.get('type'): raises unless the text
\* is valid JSON whose value is an object.
ParsesToObject(f) == f.json = "object"

\* base64.b64decode(audio_data) raises binascii.Error on undecodable data
DecodesBase64(f) == f.data = "b64"

\* mutant: the stop branch sends its result with the type of the threshold branch
FlushReply_all_partial(kind, text) ==
  IF Truthy(text) THEN <<PartialMsg(text)>> ELSE <<>>

\* The message sent for a flush result, if any: "if result_text: send(...)"
FlushReply(kind, text) ==
  IF Truthy(text)
    THEN <<IF kind = "threshold" THEN PartialMsg(text) ELSE FinalMsg(text)>>
    ELSE <<>>

\* mutant: the audio_file branch builds its final message like the stop branch
FileReply_no_mode(text) ==
  IF Truthy(text) THEN FinalMsg(text) ELSE FinalMsg(Sentinel)

\* The final message of an audio_file request
FileReply(text) ==
  IF Truthy(text) THEN FileFinalMsg(text) ELSE FileFinalMsg(Sentinel)

\* The reply when convert_audio_to_wav returned None
ConvertFailedReply == ErrorMsg("Failed to convert audio format.")

\* The reply of the "except Exception" clause around the audio_file branch
ExceptionReply == ErrorMsg("Error processing audio: ...")

\* mutant: the buffer is joined but "audio_buffer = []" is left out
ClearedBuffer_kept(buf) == buf

\* The buffer after "audio_buffer = []"
ClearedBuffer(buf) == <<>>

\* mutant: the audio_file branch resets the buffer like the flush branches do
buffer_in_audio_file_reset(buf) == <<>>

\* The audio_file branch (lines 196-268) does not assign audio_buffer
buffer_in_audio_file(buf) == buf

\* mutant: audio_buffer is a module-level list, the one every coroutine appends to
BufferOf_shared(c) == CHOOSE d \in Conns : \A e \in Conns : d <= e

\* "audio_buffer = []" (line 152) is a local of the coroutine: the coroutine of
\* connection c reads and assigns the buffer of c
BufferOf(c) == c

\* mutant: the stop branch flushes whatever the buffer holds
stop_flushes_always(buf) == TRUE

\* "if audio_buffer:" (line 272)
stop_flushes(buf) == buf # <<>>

\* mutant: an else branch answers an unknown type with an error
OtherReplies_error == <<ErrorMsg("Unknown message type")>>

\* No branch, and no else, for a type other than audio_file and stop: nothing
\* is sent (lines 196, 270)
OtherReplies == <<>>

\* one blocking call
\* outcome is how the external call ended, "pending" while it is in flight
Call(site, audio) == [site |-> site, audio |-> audio, outcome |-> "pending"]

\* ---- the speaker segmenter inside transcribe_audio_file (lines 50-91) ----
\* Strings are sequences of tokens: a speaker label, ":", " " or a word.
\* Times are in tenths of a second.

MaxSegs == 3       \* segments returned by one model.transcribe call

\* "if i > 0 and silence_gap > 0.5"
GapThreshold == 5

\* mutant: the two labels in the other order
speaker_labels_swapped == <<"Patient", "Therapist">>

\* "speaker_labels = ['Therapist', 'Patient']" (line 58)
speaker_labels == <<"Therapist", "Patient">>

Whitespace == {" "}

\* (start, end) of the segments the engine may return
SegSpans == { <<0, 0>>, <<0, 10>>, <<12, 20>>, <<15, 20>>, <<50, 60>> }

\* seg.text of the segments the engine may return
SegTexts == { <<"a">>, <<" ", "b">>, <<" ">>, <<"c", ":", " ", "d">> }

Segments == { [start |-> sp[1], end |-> sp[2], text |-> t] : sp \in SegSpans, t \in SegTexts }

SegInputs == UNION { [1..n -> Segments] : n \in 0..MaxSegs }

\* str.strip()
RECURSIVE lstrip(_)
lstrip(s) == IF s # <<>> /\ Head(s) \in Whitespace THEN lstrip(Tail(s)) ELSE s

RECURSIVE rstrip(_)
rstrip(s) ==
  IF s # <<>> /\ s[Len(s)] \in Whitespace THEN rstrip(SubSeq(s, 1, Len(s) - 1)) ELSE s

strip(s) == rstrip(lstrip(s))

\* f"{speaker_name}: {text}"
FormatPart(speaker_name, text) == <<speaker_name, ":", " ">> \o text

\* str.startswith
StartsWith(s, prefix) ==
  Len(s) >= Len(prefix) /\ SubSeq(s, 1, Len(prefix)) = prefix

\* the places where ': ' occurs in part
SepPlaces(part) == { k \in 1..(Len(part) - 1) : part[k] = ":" /\ part[k + 1] = " " }

\* "': ' in part"
HasSep(part) == SepPlaces(part) # {}

\* part.split(': ', 1): what stands before and after the first ': '
SplitPart(part) ==
  LET k == CHOOSE x \in SepPlaces(part) : \A y \in SepPlaces(part) : x <= y IN
    [speaker |-> SubSeq(part, 1, k - 1), text |-> SubSeq(part, k + 2, Len(part))]

\* "silence_gap = seg.start - last_end_time if last_end_time > 0 else 0"
silence_gap(seg, last_end_time) ==
  IF last_end_time > 0 THEN seg.start - last_end_time ELSE 0

\* mutant: the gap test written with >= instead of >
speaker_changes_inclusive(i, gap) == i > 1 /\ gap >= GapThreshold

\* "if i > 0 and silence_gap > 0.5" (i counts from 1 here)
speaker_changes(i, gap) == i > 1 /\ gap > GapThreshold

\* the loop of lines 62-75, from segment i on
RECURSIVE label_loop(_, _, _, _, _)
label_loop(segs, i, current_speaker, last_end_time, parts) ==
  IF i > Len(segs) THEN parts
  ELSE LET seg == segs[i]
           speaker == IF speaker_changes(i, silence_gap(seg, last_end_time))
                        THEN 1 - current_speaker
                        ELSE current_speaker
           speaker_name == speaker_labels[speaker + 1]
       IN label_loop(segs, i + 1, speaker, seg.end,
                     Append(parts, FormatPart(speaker_name, strip(seg.text))))

\* the flushes that may have gone before the one followed: none, one segment,
\* and two segments of which the second is the Patient's
EarlierInputs ==
  { <<>>,
    <<[start |-> 0, end |-> 10, text |-> <<"a">>]>>,
    <<[start |-> 0, end |-> 10, text |-> <<"a">>],
      [start |-> 20, end |-> 30, text |-> <<"a">>]>> }

\* the values the locals current_speaker and last_end_time held when the loop
\* over segs ended
final_speaker(segs) ==
  IF segs = <<>> THEN 0
  ELSE LET parts == label_loop(segs, 1, 0, 0, <<>>) IN
       IF parts[Len(parts)][1] = speaker_labels[1] THEN 0 ELSE 1
final_end_time(segs) == IF segs = <<>> THEN 0 ELSE segs[Len(segs)].end

\* mutant: current_speaker and last_end_time outlive the call, and the loop
\* goes on from where the flush before left them
label_segments_resumed(segs) ==
  label_loop(segs, 1, final_speaker(earlier_segments),
             final_end_time(earlier_segments), <<>>)

\* text_parts after the loop: "current_speaker = 0" and "last_end_time = 0"
\* (lines 59-60) are assigned at every call
label_segments(segs) == label_loop(segs, 1, 0, 0, <<>>)

\* mutant: the merge pass never recognises the speaker of the last turn
same_speaker_never(last, speaker) == FALSE

\* "merged_parts[-1].startswith(speaker + ':')"
same_speaker(last, speaker) == StartsWith(last, speaker \o <<":">>)

\* mutant: the text is appended without the separating space
extend_turn_no_space(last, text) == last \o text

\* "merged_parts[-1] += ' ' + text"
extend_turn(last, text) == last \o <<" ">> \o text

\* "result = '\n'.join(merged_parts)" (line 88)
RECURSIVE join_lines(_)
join_lines(parts) ==
  IF parts = <<>> THEN <<>>
  ELSE IF Len(parts) = 1 THEN parts[1]
  ELSE parts[1] \o <<"\n">> \o join_lines(Tail(parts))

\* the loop of lines 78-87, from part i on
RECURSIVE merge_loop(_, _, _)
merge_loop(parts, i, merged) ==
  IF i > Len(parts) THEN merged
  ELSE LET part == parts[i] IN
       IF ~HasSep(part) THEN merge_loop(parts, i + 1, merged)
       ELSE LET sp == SplitPart(part) IN
            IF merged # <<>> /\ same_speaker(Last(merged), sp.speaker)
              THEN merge_loop(parts, i + 1,
                              SetLast(merged, extend_turn(Last(merged), sp.text)))
              ELSE merge_loop(parts, i + 1, Append(merged, part))

merge_parts(parts) == merge_loop(parts, 1, <<>>)

\* no call of transcribe_audio_file is being followed
SegIdle ==
  /\ seg_pc = "idle"
  /\ all_segments = <<>>
  /\ text_parts = <<>>
  /\ merged_parts = <<>>
  /\ seg_result = <<>>
  /\ earlier_segments = <<>>

\* a NULL DateTime column; the clock starts at 1
Null == 0

\* session.original_transcription: NULL, or a text of which only the length
\* of text.strip() matters
NullText == [null |-> TRUE, stripped |-> 0]
Text(n) == [null |-> FALSE, stripped |-> n]

\* a request to generate_session_notes or update_session_notes together with
\* the status it was answered with
Response(endpoint, session_id, regenerate, text, is_ai_generated, status) ==
  [endpoint |-> endpoint, session_id |-> session_id, regenerate |-> regenerate,
   notes |-> text, is_ai_generated |-> is_ai_generated, status |-> status]
NoResponse == Response("-", 0, FALSE, None, FALSE, 0)

\* no request to the notes endpoints is being followed
NotesIdle ==
  /\ notes_pc = "absent"
  /\ original_transcription = NullText
  /\ notes = None
  /\ notes_is_ai_generated = FALSE
  /\ notes_edited_from_ai = FALSE
  /\ notes_generated_at = Null
  /\ notes_last_edited_at = Null
  /\ utcnow = 1
  /\ notes_response = NoResponse

\* no DatasetLoader is being followed
SplitIdle ==
  /\ split_pc = "absent"
  /\ df = <<>>
  /\ train_df = <<>>
  /\ val_df = <<>>
  /\ test_df = <<>>

OfflineIdle == NotesIdle /\ SplitIdle

\* ---- state predicates used in guards ----
LoopFree == running = {}
Done(c) == pc[c] \in {"closed", "failed"}

\* what the clients may send in all
ChunkBudget == IF Cardinality(clients) = 1 THEN MaxChunks ELSE PairChunks
TextBudget == IF Cardinality(clients) = 1 THEN MaxText ELSE PairText

\* the handler state when the connections cs have just been accepted
HandlerInit(cs) ==
  /\ clients = cs
  /\ inbox = [c \in Conns |-> <<>>]
  /\ clientClosed = [c \in Conns |-> FALSE]
  /\ wsClosed = [c \in Conns |-> FALSE]
  /\ chunksSent = [c \in Conns |-> 0]
  /\ textsSent = [c \in Conns |-> 0]
  /\ pc = [c \in Conns |-> IF c \in clients THEN "accept" ELSE "absent"]
  /\ running = {}
  /\ audio_buffer = [c \in Conns |-> <<>>]
  /\ out = [c \in Conns |-> <<>>]
  /\ calls = [c \in Conns |-> <<>>]
  /\ temp_files = [c \in Conns |-> {}]
  /\ stopped = [c \in Conns |-> FALSE]
  /\ closedInFlush = [c \in Conns |-> FALSE]

\* no connection to the Vosk server is being followed
VoskIdle ==
  /\ vosk_pc = "absent"
  /\ vosk_inbox = <<>>
  /\ vosk_sent = 0
  /\ vosk_closed = FALSE
  /\ current_language = None
  /\ recognizer = None
  /\ vosk_out = <<>>

Init ==
  /\ \E cs \in {{1}, Conns} : HandlerInit(cs)
  /\ SegIdle
  /\ VoskIdle
  /\ OfflineIdle

\* ---- the clients and the transport ----
ClientSendBytes(c) ==
  /\ c \in clients /\ ~clientClosed[c] /\ ~Done(c)
  /\ Len(inbox[c]) < MaxInbox
  /\ SumOver(Conns, chunksSent) < ChunkBudget
  /\ chunksSent' = [chunksSent EXCEPT ![c] = @ + 1]
  /\ inbox' = [inbox EXCEPT ![c] = Append(@, BytesFrame(chunksSent[c] + 1))]
  /\ UNCHANGED <<notHandlerVars, closedInFlush>>
  /\ UNCHANGED <<clients, clientClosed, wsClosed, textsSent, pc, running,
                 audio_buffer, out, calls, temp_files, stopped>>

ClientSendText(c) ==
  /\ c \in clients /\ ~clientClosed[c] /\ ~Done(c)
  /\ Len(inbox[c]) < MaxInbox
  /\ SumOver(Conns, textsSent) < TextBudget
  /\ \E f \in TextFrames :
       inbox' = [inbox EXCEPT ![c] = Append(@, f)]
  /\ textsSent' = [textsSent EXCEPT ![c] = @ + 1]
  /\ UNCHANGED <<notHandlerVars, closedInFlush>>
  /\ UNCHANGED <<clients, clientClosed, wsClosed, chunksSent, pc, running,
                 audio_buffer, out, calls, temp_files, stopped>>

ClientClose(c) ==
  /\ c \in clients /\ ~clientClosed[c] /\ ~Done(c)
  /\ clientClosed' = [clientClosed EXCEPT ![c] = TRUE]
  /\ closedInFlush' = [closedInFlush EXCEPT ![c] = pc[c] \in {"flush", "stopflush"}]
  /\ UNCHANGED notHandlerVars
  /\ UNCHANGED <<clients, inbox, wsClosed, chunksSent, textsSent, pc, running,
                 audio_buffer, out, calls, temp_files, stopped>>

\* The library's reader task sees the close frame; it runs on the event loop,
\* so only while no coroutine holds the loop.
TransferClose(c) ==
  /\ LoopFree
  /\ clientClosed[c] /\ ~wsClosed[c] /\ ~Done(c)
  /\ wsClosed' = [wsClosed EXCEPT ![c] = TRUE]
  /\ UNCHANGED <<notHandlerVars, closedInFlush>>
  /\ UNCHANGED <<clients, inbox, clientClosed, chunksSent, textsSent, pc, running,
                 audio_buffer, out, calls, temp_files, stopped>>

\* ---- the coroutine transcribe_audio(websocket) ----

\* Lines 134-149: send the welcome message; a failed send is re-raised.
Welcome(c) ==
  /\ LoopFree /\ pc[c] = "accept"
  /\ IF wsClosed[c]
       THEN /\ pc' = [pc EXCEPT ![c] = "failed"]
            /\ out' = out
       ELSE /\ pc' = [pc EXCEPT ![c] = "recv"]
            /\ out' = [out EXCEPT ![c] = Append(@, ConnectedMsg)]
  /\ UNCHANGED <<notHandlerVars, closedInFlush>>
  /\ UNCHANGED <<clients, inbox, clientClosed, wsClosed, chunksSent, textsSent, running,
                 audio_buffer, calls, temp_files, stopped>>

\* Lines 155-178: a binary message.  It is appended to the buffer; at the
\* threshold the buffer is joined and cleared, written to a temporary file, and
\* transcribe_audio_file is called inline (the coroutine keeps the loop).
RecvBytes(c) ==
  /\ LoopFree /\ pc[c] = "recv"
  /\ inbox[c] # <<>> /\ Head(inbox[c]).kind = "bytes"
  /\ inbox' = [inbox EXCEPT ![c] = Tail(@)]
  /\ LET buf == Append(audio_buffer[BufferOf(c)], Head(inbox[c]).seq) IN
       IF should_flush(buf)
         THEN /\ audio_buffer' = [audio_buffer EXCEPT ![BufferOf(c)] = ClearedBuffer(buf)]
              /\ calls' = [calls EXCEPT ![c] =
                             Append(@, Call("threshold", buf))]
              /\ temp_files' = [temp_files EXCEPT ![c] = @ \cup {"stream.wav"}]
              /\ pc' = [pc EXCEPT ![c] = "flush"]
              /\ running' = {c}
         ELSE /\ audio_buffer' = [audio_buffer EXCEPT ![BufferOf(c)] = buf]
              /\ UNCHANGED <<calls, temp_files, pc, running>>
  /\ UNCHANGED <<notHandlerVars, closedInFlush>>
  /\ UNCHANGED <<clients, clientClosed, wsClosed, chunksSent, textsSent, out,
                 stopped>>

\* Lines 178-189: transcribe_audio_file returns; a truthy result is sent as a
\* partial message; the temporary file is removed in the finally clause.  A
\* send on a closed connection raises ConnectionClosed (lines 296-298).
FlushReturn(c) ==
  /\ running = {c} /\ pc[c] = "flush"
  /\ \E o \in EngineOutcomes :
       LET reply == FlushReply("threshold", transcribe_audio_file(o)) IN
         /\ calls' = [calls EXCEPT ![c] =
                        SetLast(@, [Last(@) EXCEPT !.outcome = o])]
         /\ IF reply # <<>> /\ wsClosed[c]
              THEN /\ pc' = [pc EXCEPT ![c] = "closed"]
                   /\ out' = out
              ELSE /\ pc' = [pc EXCEPT ![c] = "recv"]
                   /\ out' = [out EXCEPT ![c] = @ \o reply]
  /\ temp_files' = [temp_files EXCEPT ![c] = @ \ {"stream.wav"}]
  /\ running' = {}
  /\ UNCHANGED <<notHandlerVars, closedInFlush>>
  /\ UNCHANGED <<clients, inbox, clientClosed, wsClosed, chunksSent, textsSent,
                 audio_buffer, stopped>>

\* Lines 191-194 and 299-302: a text message that json.loads rejects, or whose
\* value has no get method, raises; the outer "except Exception" ends the
\* handler.
RecvMalformed(c) ==
  /\ LoopFree /\ pc[c] = "recv"
  /\ inbox[c] # <<>> /\ Head(inbox[c]).kind = "text"
  /\ ~ParsesToObject(Head(inbox[c]))
  /\ inbox' = [inbox EXCEPT ![c] = Tail(@)]
  /\ pc' = [pc EXCEPT ![c] = "failed"]
  /\ UNCHANGED <<notHandlerVars, closedInFlush>>
  /\ UNCHANGED <<clients, clientClosed, wsClosed, chunksSent, textsSent, running,
                 audio_buffer, out, calls, temp_files, stopped>>

\* Lines 191-196, 270: a JSON object whose type is neither audio_file nor stop
\* matches no branch.
RecvOther(c) ==
  /\ LoopFree /\ pc[c] = "recv"
  /\ inbox[c] # <<>> /\ Head(inbox[c]).kind = "text"
  /\ ParsesToObject(Head(inbox[c]))
  /\ Head(inbox[c]).type \notin {"audio_file", "stop"}
  /\ inbox' = [inbox EXCEPT ![c] = Tail(@)]
  /\ out' = [out EXCEPT ![c] = @ \o OtherReplies]
  /\ UNCHANGED <<notHandlerVars, closedInFlush>>
  /\ UNCHANGED <<clients, clientClosed, wsClosed, chunksSent, textsSent, pc, running,
                 audio_buffer, calls, temp_files, stopped>>

\* Lines 270-282, 294: a stop message.  A non-empty buffer is joined, cleared
\* and handed to transcribe_audio_file inline; with an empty buffer only
\* "Recording stopped" is printed.  The loop then goes on to the next message.
RecvStop(c) ==
  /\ LoopFree /\ pc[c] = "recv"
  /\ inbox[c] # <<>> /\ Head(inbox[c]).kind = "text"
  /\ ParsesToObject(Head(inbox[c]))
  /\ Head(inbox[c]).type = "stop"
  /\ inbox' = [inbox EXCEPT ![c] = Tail(@)]
  /\ IF stop_flushes(audio_buffer[BufferOf(c)])
       THEN /\ audio_buffer' = [audio_buffer EXCEPT ![BufferOf(c)] = ClearedBuffer(@)]
            /\ calls' = [calls EXCEPT ![c] =
                           Append(@, Call("stop", audio_buffer[BufferOf(c)]))]
            /\ temp_files' = [temp_files EXCEPT ![c] = @ \cup {"stream.wav"}]
            /\ pc' = [pc EXCEPT ![c] = "stopflush"]
            /\ running' = {c}
            /\ stopped' = stopped
       ELSE /\ stopped' = [stopped EXCEPT ![c] = TRUE]
            /\ UNCHANGED <<audio_buffer, calls, temp_files, pc, running>>
  /\ UNCHANGED <<notHandlerVars, closedInFlush>>
  /\ UNCHANGED <<clients, clientClosed, wsClosed, chunksSent, textsSent, out>>

\* Lines 282-294: the stop flush returns; a truthy result is sent as a final
\* message, the temporary file is removed, "Recording stopped" is printed.
StopFlushReturn(c) ==
  /\ running = {c} /\ pc[c] = "stopflush"
  /\ \E o \in EngineOutcomes :
       LET reply == FlushReply("stop", transcribe_audio_file(o)) IN
         /\ calls' = [calls EXCEPT ![c] =
                        SetLast(@, [Last(@) EXCEPT !.outcome = o])]
         /\ IF reply # <<>> /\ wsClosed[c]
              THEN /\ pc' = [pc EXCEPT ![c] = "closed"]
                   /\ out' = out
                   /\ stopped' = stopped
              ELSE /\ pc' = [pc EXCEPT ![c] = "recv"]
                   /\ out' = [out EXCEPT ![c] = @ \o reply]
                   /\ stopped' = [stopped EXCEPT ![c] = TRUE]
  /\ temp_files' = [temp_files EXCEPT ![c] = @ \ {"stream.wav"}]
  /\ running' = {}
  /\ UNCHANGED <<notHandlerVars, closedInFlush>>
  /\ UNCHANGED <<clients, inbox, clientClosed, wsClosed, chunksSent, textsSent,
                 audio_buffer>>

\* The messages sent once convert_audio_to_wav has returned (lines 224-229,
\* 251-256): a second processing message, or the conversion error.
\* mutant: the else branch that reports the failed conversion is missing
ConvertReplies_no_else(wav) ==
  IF wav # None
    THEN <<ProcessingMsg("Transcribing with Faster-Whisper (Auto-detect)...")>>
    ELSE <<>>

ConvertReplies(wav) ==
  IF wav # None
    THEN <<ProcessingMsg("Transcribing with Faster-Whisper (Auto-detect)...")>>
    ELSE <<ConvertFailedReply>>

\* Lines 196-219: an audio_file message.  Undecodable base64 raises inside the
\* try block and the except clause (261-268) sends an error.  Otherwise the
\* payload is written to a temporary .m4a file and a processing message is sent.
\* A send that raises ConnectionClosed is caught by the same except clause,
\* whose own send raises again and ends the handler (296-298).
RecvAudioFile(c) ==
  /\ LoopFree /\ pc[c] = "recv"
  /\ inbox[c] # <<>> /\ Head(inbox[c]).kind = "text"
  /\ ParsesToObject(Head(inbox[c]))
  /\ Head(inbox[c]).type = "audio_file"
  /\ inbox' = [inbox EXCEPT ![c] = Tail(@)]
  /\ IF ~DecodesBase64(Head(inbox[c]))
         THEN /\ temp_files' = temp_files
              /\ IF wsClosed[c]
                   THEN /\ pc' = [pc EXCEPT ![c] = "closed"]
                        /\ out' = out
                   ELSE /\ pc' = pc
                        /\ out' = [out EXCEPT ![c] = Append(@, ExceptionReply)]
         ELSE /\ temp_files' = [temp_files EXCEPT ![c] = @ \cup {"upload.m4a"}]
              /\ IF wsClosed[c]
                   THEN /\ pc' = [pc EXCEPT ![c] = "closed"]
                        /\ out' = out
                   ELSE /\ pc' = [pc EXCEPT ![c] = "af_convert"]
                        /\ out' = [out EXCEPT ![c] =
                                     Append(@, ProcessingMsg("Converting audio format..."))]
  /\ audio_buffer' = [audio_buffer EXCEPT ![c] = buffer_in_audio_file(@)]
  /\ UNCHANGED <<notHandlerVars, closedInFlush>>
  /\ UNCHANGED <<clients, clientClosed, wsClosed, chunksSent, textsSent, running,
                 calls, stopped>>

\* Lines 222, 118: convert_audio_to_wav starts ffmpeg with subprocess.run and
\* waits for it inline.
ConvertCall(c) ==
  /\ LoopFree /\ pc[c] = "af_convert"
  /\ calls' = [calls EXCEPT ![c] = Append(@, Call("convert", <<>>))]
  /\ pc' = [pc EXCEPT ![c] = "af_converting"]
  /\ running' = {c}
  /\ UNCHANGED <<notHandlerVars, closedInFlush>>
  /\ UNCHANGED <<clients, inbox, clientClosed, wsClosed, chunksSent, textsSent,
                 audio_buffer, out, temp_files, stopped>>

\* Lines 120-130, 224-229, 251-259: ffmpeg has exited and the converter returns.
ConvertReturn(c) ==
  /\ running = {c} /\ pc[c] = "af_converting"
  /\ Last(calls[c]).outcome = "pending"
  /\ \E o \in ConvertOutcomes :
       LET wav == convert_audio_to_wav(o)
           made == IF wav # None THEN {"converted.wav"} ELSE {} IN
         /\ calls' = [calls EXCEPT ![c] =
                        SetLast(@, [Last(@) EXCEPT !.outcome = o])]
         /\ IF wsClosed[c]
              THEN /\ pc' = [pc EXCEPT ![c] = "closed"]
                   /\ out' = out
                   /\ temp_files' = [temp_files EXCEPT ![c] = @ \cup made]
              ELSE /\ out' = [out EXCEPT ![c] = @ \o ConvertReplies(wav)]
                   /\ IF wav # None
                        THEN /\ pc' = [pc EXCEPT ![c] = "af_transcribe"]
                             /\ temp_files' = [temp_files EXCEPT ![c] = @ \cup made]
                        ELSE /\ pc' = [pc EXCEPT ![c] = "recv"]
                             /\ temp_files' = [temp_files EXCEPT ![c] = @ \ {"upload.m4a"}]
  /\ running' = {}
  /\ UNCHANGED <<notHandlerVars, closedInFlush>>
  /\ UNCHANGED <<clients, inbox, clientClosed, wsClosed, chunksSent, textsSent,
                 audio_buffer, stopped>>

\* Line 118: subprocess.run is called without a timeout, so it returns only
\* when ffmpeg exits.  An ffmpeg that never exits keeps the coroutine, and with
\* it the event loop, inside the call.
ConvertHangs(c) ==
  /\ running = {c} /\ pc[c] = "af_converting"
  /\ Last(calls[c]).outcome = "pending"
  /\ calls' = [calls EXCEPT ![c] = SetLast(@, [Last(@) EXCEPT !.outcome = "hang"])]
  /\ UNCHANGED <<notHandlerVars, closedInFlush>>
  /\ UNCHANGED <<clients, inbox, clientClosed, wsClosed, chunksSent, textsSent, pc, running,
                 audio_buffer, out, temp_files, stopped>>

\* Line 232: transcribe_audio_file(wav_path, None) is called inline.
TranscribeCall(c) ==
  /\ LoopFree /\ pc[c] = "af_transcribe"
  /\ calls' = [calls EXCEPT ![c] = Append(@, Call("file", <<>>))]
  /\ pc' = [pc EXCEPT ![c] = "af_transcribing"]
  /\ running' = {c}
  /\ UNCHANGED <<notHandlerVars, closedInFlush>>
  /\ UNCHANGED <<clients, inbox, clientClosed, wsClosed, chunksSent, textsSent,
                 audio_buffer, out, temp_files, stopped>>

\* Lines 232-250, 258-259: the engine returns; the final message is sent and
\* both temporary files are unlinked.
TranscribeReturn(c) ==
  /\ running = {c} /\ pc[c] = "af_transcribing"
  /\ \E o \in EngineOutcomes :
       /\ calls' = [calls EXCEPT ![c] =
                      SetLast(@, [Last(@) EXCEPT !.outcome = o])]
       /\ IF wsClosed[c]
            THEN /\ pc' = [pc EXCEPT ![c] = "closed"]
                 /\ out' = out
                 /\ temp_files' = temp_files
            ELSE /\ pc' = [pc EXCEPT ![c] = "recv"]
                 /\ out' = [out EXCEPT ![c] =
                              Append(@, FileReply(transcribe_audio_file(o)))]
                 /\ temp_files' = [temp_files EXCEPT ![c] =
                                     @ \ {"converted.wav", "upload.m4a"}]
  /\ running' = {}
  /\ UNCHANGED <<notHandlerVars, closedInFlush>>
  /\ UNCHANGED <<clients, inbox, clientClosed, wsClosed, chunksSent, textsSent,
                 audio_buffer, stopped>>

\* Lines 155, 296-305: the iteration over the websocket ends once the
\* connection is closed and every queued message has been yielded.
IterationEnds(c) ==
  /\ LoopFree /\ pc[c] = "recv"
  /\ inbox[c] = <<>> /\ wsClosed[c]
  /\ pc' = [pc EXCEPT ![c] = "closed"]
  /\ UNCHANGED <<notHandlerVars, closedInFlush>>
  /\ UNCHANGED <<clients, inbox, clientClosed, wsClosed, chunksSent, textsSent, running,
                 audio_buffer, out, calls, temp_files, stopped>>

Next ==
  \E c \in Conns :
    \/ ClientSendBytes(c)
    \/ ClientSendText(c)
    \/ ClientClose(c)
    \/ TransferClose(c)
    \/ Welcome(c)
    \/ RecvBytes(c)
    \/ FlushReturn(c)
    \/ RecvMalformed(c)
    \/ RecvOther(c)
    \/ RecvStop(c)
    \/ StopFlushReturn(c)
    \/ RecvAudioFile(c)
    \/ ConvertCall(c)
    \/ ConvertReturn(c)
    \/ ConvertHangs(c)
    \/ TranscribeCall(c)
    \/ TranscribeReturn(c)
    \/ IterationEnds(c)

Spec == Init /\ [][Next]_vars

\* ---- one call of transcribe_audio_file, once model.transcribe has returned ----

SegInit ==
  /\ HandlerInit({})
  /\ VoskIdle
  /\ OfflineIdle
  /\ seg_pc = "segments"
  /\ all_segments \in SegInputs
  /\ text_parts = <<>>
  /\ merged_parts = <<>>
  /\ seg_result = <<>>
  /\ earlier_segments \in EarlierInputs

\* Lines 53-54: "if not all_segments: return '(No speech detected)'"
NoSpeech ==
  /\ seg_pc = "segments" /\ all_segments = <<>>
  /\ seg_pc' = "returned"
  /\ seg_result' = <<Sentinel>>
  /\ UNCHANGED <<all_segments, text_parts, merged_parts, earlier_segments>>
  /\ UNCHANGED <<handlerVars, voskVars, offlineVars>>

\* Lines 56-75: every segment gets a speaker label.
LabelSpeakers ==
  /\ seg_pc = "segments" /\ all_segments # <<>>
  /\ text_parts' = label_segments(all_segments)
  /\ seg_pc' = "labelled"
  /\ UNCHANGED <<all_segments, merged_parts, seg_result, earlier_segments>>
  /\ UNCHANGED <<handlerVars, voskVars, offlineVars>>

\* Lines 77-95: consecutive parts of one speaker are merged; the turns are
\* joined with newlines and returned.
MergeTurns ==
  /\ seg_pc = "labelled"
  /\ merged_parts' = merge_parts(text_parts)
  /\ seg_result' = join_lines(merge_parts(text_parts))
  /\ seg_pc' = "returned"
  /\ UNCHANGED <<all_segments, text_parts, earlier_segments>>
  /\ UNCHANGED <<handlerVars, voskVars, offlineVars>>

SegNext ==
  \/ NoSpeech
  \/ LabelSpeakers
  \/ MergeTurns

SegSpec == SegInit /\ [][SegNext]_vars

\* ---- one connection of the Vosk server (transcription_server_vosk.py) ----

MaxVoskFrames == 4   \* frames the client of the Vosk server sends

\* "MODELS = {'hindi': ..., 'english': ...}"
MODELS == {"hindi", "english"}

\* what a set_language message may carry under "language"; "-" is no such key
LanguageValues == MODELS \cup {"french", "-"}

VoskBytes == [kind |-> "bytes", json |-> "-", type |-> "-", language |-> "-", data |-> "-"]
VoskText(j, t, l, d) == [kind |-> "text", json |-> j, type |-> t, language |-> l, data |-> d]

VoskFrames ==
  {VoskBytes, VoskText("invalid", "-", "-", "-"),
   VoskText("object", "stop", "-", "-"), VoskText("object", "other", "-", "-"),
   VoskText("object", "audio_file", "-", "b64"), VoskText("object", "audio_file", "-", "notb64")}
  \cup { VoskText("object", "set_language", l, "-") : l \in LanguageValues }

\* what recognizer.AcceptWaveform and the result getters give for one chunk
AcceptOutcomes == {"final_text", "final_empty", "partial_text", "partial_empty"}

\* what recognizer.FinalResult gives on stop
FinalResultOutcomes == {"text", "empty"}

\* what process_audio_with_vosk returns: a text, "" or None
VoskFileOutcomes == {"text", "empty", "none"}

\* what convert_to_wav returns: the path, or None (ffmpeg missing, non-zero
\* exit, no output file, timeout after 30 s)
VoskConvertOutcomes == {"ok", "nonzero", "missing", "timeout"}

VoskMsg(type, language, text) == [type |-> type, language |-> language, text |-> text]

\* "KaldiRecognizer(MODELS[current_language], 16000)"
KaldiRecognizer(language) == [language |-> language, fed |-> 0]

\* "new_language = data.get('language', 'hindi')"
new_language(f) == IF f.language = "-" THEN "hindi" ELSE f.language

\* mutant: the membership test is left out
language_known_always(l) == TRUE

\* "if new_language in MODELS"
language_known(l) == l \in MODELS

\* a send: the messages are appended, or ConnectionClosed ends the handler
VoskSend(msgs) ==
  IF msgs # <<>> /\ vosk_closed
    THEN /\ vosk_pc' = "closed"
         /\ vosk_out' = vosk_out
    ELSE /\ vosk_pc' = "recv"
         /\ vosk_out' = vosk_out \o msgs

VoskInit ==
  /\ HandlerInit({})
  /\ SegIdle
  /\ OfflineIdle
  /\ vosk_pc = "accept"
  /\ vosk_inbox = <<>>
  /\ vosk_sent = 0
  /\ vosk_closed = FALSE
  /\ current_language = None
  /\ recognizer = None
  /\ vosk_out = <<>>

VoskClientSend ==
  /\ ~vosk_closed /\ vosk_pc \in {"accept", "recv"}
  /\ Len(vosk_inbox) < MaxInbox
  /\ vosk_sent < MaxVoskFrames
  /\ \E f \in VoskFrames : vosk_inbox' = Append(vosk_inbox, f)
  /\ vosk_sent' = vosk_sent + 1
  /\ UNCHANGED <<vosk_pc, vosk_closed, current_language, recognizer, vosk_out>>
  /\ UNCHANGED <<handlerVars, segVars, offlineVars>>

VoskClientClose ==
  /\ ~vosk_closed /\ vosk_pc \in {"accept", "recv"}
  /\ vosk_closed' = TRUE
  /\ UNCHANGED <<vosk_pc, vosk_inbox, vosk_sent, current_language, recognizer, vosk_out>>
  /\ UNCHANGED <<handlerVars, segVars, offlineVars>>

\* Lines 21-41: the welcome message is sent, then the default language is set
\* and its recognizer created; a failed send is re-raised.
VoskWelcome ==
  /\ vosk_pc = "accept"
  /\ IF vosk_closed
       THEN /\ vosk_pc' = "failed"
            /\ UNCHANGED <<vosk_out, current_language, recognizer>>
       ELSE /\ vosk_pc' = "recv"
            /\ vosk_out' = Append(vosk_out, VoskMsg("connected", "-", "-"))
            /\ current_language' = "hindi"
            /\ recognizer' = KaldiRecognizer("hindi")
  /\ UNCHANGED <<vosk_inbox, vosk_sent, vosk_closed>>
  /\ UNCHANGED <<handlerVars, segVars, offlineVars>>

\* Lines 50-75: a binary message is fed to the recognizer; a non-empty final or
\* partial text is sent.
VoskRecvBytes ==
  /\ vosk_pc = "recv"
  /\ vosk_inbox # <<>> /\ Head(vosk_inbox).kind = "bytes"
  /\ vosk_inbox' = Tail(vosk_inbox)
  /\ \E o \in AcceptOutcomes :
       /\ recognizer' = [recognizer EXCEPT !.fed =
                           IF o \in {"final_text", "final_empty"} THEN 0 ELSE 1]
       /\ VoskSend(CASE o = "final_text" -> <<VoskMsg("final", "-", "text")>>
                     [] o = "partial_text" -> <<VoskMsg("partial", "-", "text")>>
                     [] OTHER -> <<>>)
  /\ UNCHANGED <<vosk_sent, vosk_closed, current_language>>
  /\ UNCHANGED <<handlerVars, segVars, offlineVars>>

\* Lines 77-80, 195-198: json.loads or data.get raises; the outer except ends
\* the handler.
VoskRecvMalformed ==
  /\ vosk_pc = "recv"
  /\ vosk_inbox # <<>> /\ Head(vosk_inbox).kind = "text"
  /\ Head(vosk_inbox).json # "object"
  /\ vosk_inbox' = Tail(vosk_inbox)
  /\ vosk_pc' = "failed"
  /\ UNCHANGED <<vosk_sent, vosk_closed, current_language, recognizer, vosk_out>>
  /\ UNCHANGED <<handlerVars, segVars, offlineVars>>

\* Lines 82-98: set_language.
VoskSetLanguage ==
  /\ vosk_pc = "recv"
  /\ vosk_inbox # <<>> /\ Head(vosk_inbox).kind = "text"
  /\ Head(vosk_inbox).json = "object" /\ Head(vosk_inbox).type = "set_language"
  /\ vosk_inbox' = Tail(vosk_inbox)
  /\ LET l == new_language(Head(vosk_inbox)) IN
       IF language_known(l)
         THEN /\ current_language' = l
              /\ recognizer' = KaldiRecognizer(l)
              /\ VoskSend(<<VoskMsg("language_changed", l, "-")>>)
         ELSE /\ UNCHANGED <<current_language, recognizer>>
              /\ VoskSend(<<VoskMsg("error", "-", "Unknown language")>>)
  /\ UNCHANGED <<vosk_sent, vosk_closed>>
  /\ UNCHANGED <<handlerVars, segVars, offlineVars>>

\* Lines 100-177: audio_file.  The messages the branch sends when the
\* connection is open; on a closed connection the first send raises, the send
\* of the except clause raises again and the handler ends.
VoskFileReplies(f, conv, res) ==
  IF f.data # "b64" THEN <<VoskMsg("error", "-", "Error processing audio")>>
  ELSE <<VoskMsg("processing", "-", "Converting audio format...")>> \o
       IF conv = "ok"
         THEN <<VoskMsg("processing", "-", "Transcribing"),
                VoskMsg("final", current_language,
                        IF res = "text" THEN "text" ELSE Sentinel)>>
         ELSE <<VoskMsg("error", "-", "Failed to convert audio. Please install ffmpeg.")>>

VoskAudioFile ==
  /\ vosk_pc = "recv"
  /\ vosk_inbox # <<>> /\ Head(vosk_inbox).kind = "text"
  /\ Head(vosk_inbox).json = "object" /\ Head(vosk_inbox).type = "audio_file"
  /\ vosk_inbox' = Tail(vosk_inbox)
  /\ \E conv \in VoskConvertOutcomes : \E res \in VoskFileOutcomes :
       VoskSend(VoskFileReplies(Head(vosk_inbox), conv, res))
  /\ UNCHANGED <<vosk_sent, vosk_closed, current_language, recognizer>>
  /\ UNCHANGED <<handlerVars, segVars, offlineVars>>

\* Lines 179-190: stop.
VoskStop ==
  /\ vosk_pc = "recv"
  /\ vosk_inbox # <<>> /\ Head(vosk_inbox).kind = "text"
  /\ Head(vosk_inbox).json = "object" /\ Head(vosk_inbox).type = "stop"
  /\ vosk_inbox' = Tail(vosk_inbox)
  /\ recognizer' = [recognizer EXCEPT !.fed = 0]
  /\ \E o \in FinalResultOutcomes :
       VoskSend(IF o = "text" THEN <<VoskMsg("final", "-", "text")>> ELSE <<>>)
  /\ UNCHANGED <<vosk_sent, vosk_closed, current_language>>
  /\ UNCHANGED <<handlerVars, segVars, offlineVars>>

\* Lines 82, 100, 179: a type no branch tests for.
VoskRecvOther ==
  /\ vosk_pc = "recv"
  /\ vosk_inbox # <<>> /\ Head(vosk_inbox).kind = "text"
  /\ Head(vosk_inbox).json = "object" /\ Head(vosk_inbox).type = "other"
  /\ vosk_inbox' = Tail(vosk_inbox)
  /\ UNCHANGED <<vosk_pc, vosk_sent, vosk_closed, current_language, recognizer, vosk_out>>
  /\ UNCHANGED <<handlerVars, segVars, offlineVars>>

\* Lines 47, 192-201: the iteration ends on a closed connection.
VoskIterationEnds ==
  /\ vosk_pc = "recv"
  /\ vosk_inbox = <<>> /\ vosk_closed
  /\ vosk_pc' = "closed"
  /\ UNCHANGED <<vosk_inbox, vosk_sent, vosk_closed, current_language, recognizer, vosk_out>>
  /\ UNCHANGED <<handlerVars, segVars, offlineVars>>

VoskNext ==
  \/ VoskClientSend
  \/ VoskClientClose
  \/ VoskWelcome
  \/ VoskRecvBytes
  \/ VoskRecvMalformed
  \/ VoskSetLanguage
  \/ VoskAudioFile
  \/ VoskStop
  \/ VoskRecvOther
  \/ VoskIterationEnds

VoskSpec == VoskInit /\ [][VoskNext]_vars

\* ---- the notes endpoints (routers/notes_router.py) on one session row ----

MaxRequests == 4     \* requests served

\* "len(transcription.strip()) < 50"
MinTranscription == 50

\* session ids requests name: row 1 exists, row 2 does not
SessionIds == {1, 2}

\* what the therapist types, and what summarize_single_session returns
TypedNotes == {"", "typed 1", "typed 2"}
GeneratedNotes == {"generated 1", "generated 2"}

\* what a session row holds when the first request arrives: notes as the
\* session was created with (None or a text), the metadata columns at their
\* defaults, a transcription of any length
SessionTexts == {NullText} \cup { Text(n) : n \in {0, MinTranscription - 1, MinTranscription, 4 * MinTranscription} }

\* mutant: generation never refuses to overwrite
overwrite_refused_never(session_notes, regenerate) == FALSE

\* "if session.notes and not request.regenerate" (line 50)
overwrite_refused(session_notes, regenerate) == Truthy(session_notes) /\ ~regenerate

\* "if not transcription or len(transcription.strip()) < 50" (line 59)
too_short(transcription) ==
  transcription.null \/ transcription.stripped < MinTranscription

\* mutant: the request's is_ai_generated flag is stored as sent
notes_flags_as_sent(is_ai_generated, was_ai_generated, notes_changed) ==
  [is_ai_generated |-> is_ai_generated,
   edited_from_ai |-> was_ai_generated /\ notes_changed]

\* Lines 134-146: the two flags update_session_notes stores
notes_flags(is_ai_generated, was_ai_generated, notes_changed) ==
  IF is_ai_generated
    THEN [is_ai_generated |-> TRUE, edited_from_ai |-> FALSE]
  ELSE IF was_ai_generated /\ notes_changed
    THEN [is_ai_generated |-> TRUE, edited_from_ai |-> TRUE]
  ELSE [is_ai_generated |-> FALSE, edited_from_ai |-> FALSE]

NotesInit ==
  /\ HandlerInit({})
  /\ SegIdle
  /\ VoskIdle
  /\ SplitIdle
  /\ notes_pc = "serving"
  /\ original_transcription \in SessionTexts
  /\ notes \in {None} \cup TypedNotes
  /\ notes_is_ai_generated = FALSE
  /\ notes_edited_from_ai = FALSE
  /\ notes_generated_at = Null
  /\ notes_last_edited_at = Null
  /\ utcnow = 1
  /\ notes_response = NoResponse

\* a request that raises HTTPException(status) before anything is assigned
Refuse(response) ==
  /\ notes_response' = response
  /\ UNCHANGED <<notes, notes_is_ai_generated, notes_edited_from_ai, notes_generated_at,
                 notes_last_edited_at>>

\* Lines 34-108: POST /sessions/{session_id}/generate-notes.  service is what
\* the import of summarization_service_phi3 gives, summary what
\* summarize_single_session returns or "raise".
generate_session_notes(session_id, regenerate, service, summary) ==
  LET GenerateAnswer(status) == Response("generate", session_id, regenerate, None, FALSE, status) IN
  /\ notes_pc = "serving" /\ utcnow <= MaxRequests
  /\ utcnow' = utcnow + 1
  /\ IF session_id # 1 THEN Refuse(GenerateAnswer(404))
     ELSE IF overwrite_refused(notes, regenerate) THEN Refuse(GenerateAnswer(400))
     ELSE IF too_short(original_transcription) THEN Refuse(GenerateAnswer(400))
     ELSE IF service = "none" THEN Refuse(GenerateAnswer(503))
     ELSE IF summary = "raise" THEN Refuse(GenerateAnswer(500))
     ELSE /\ notes' = summary
          /\ notes_is_ai_generated' = TRUE
          /\ notes_edited_from_ai' = FALSE
          /\ notes_generated_at' = utcnow
          /\ notes_last_edited_at' = utcnow
          /\ notes_response' = GenerateAnswer(200)
  /\ UNCHANGED <<notes_pc, original_transcription>>
  /\ UNCHANGED <<handlerVars, segVars, voskVars, splitVars>>

GenerateNotes ==
  \E session_id \in SessionIds, regenerate \in BOOLEAN,
     service \in {"phi3", "fallback", "none"}, summary \in GeneratedNotes \cup {"raise"} :
    generate_session_notes(session_id, regenerate, service, summary)

\* Lines 111-168: PUT /sessions/{session_id}/notes.  The field edited_from_ai
\* of the request is not read.
update_session_notes(session_id, text, is_ai_generated) ==
  LET UpdateAnswer(status) == Response("update", session_id, FALSE, text, is_ai_generated, status)
      flags == notes_flags(is_ai_generated, notes_is_ai_generated, notes # text)
  IN
  /\ notes_pc = "serving" /\ utcnow <= MaxRequests
  /\ utcnow' = utcnow + 1
  /\ IF session_id # 1 THEN Refuse(UpdateAnswer(404))
     ELSE /\ notes' = text
          /\ notes_is_ai_generated' = flags.is_ai_generated
          /\ notes_edited_from_ai' = flags.edited_from_ai
          /\ notes_generated_at' =
               IF is_ai_generated /\ notes_generated_at = Null THEN utcnow
               ELSE notes_generated_at
          /\ notes_last_edited_at' = utcnow
          /\ notes_response' = UpdateAnswer(200)
  /\ UNCHANGED <<notes_pc, original_transcription>>
  /\ UNCHANGED <<handlerVars, segVars, voskVars, splitVars>>

UpdateNotes ==
  \E session_id \in SessionIds, text \in TypedNotes \cup GeneratedNotes,
     is_ai_generated \in BOOLEAN :
    update_session_notes(session_id, text, is_ai_generated)

NotesNext ==
  \/ GenerateNotes
  \/ UpdateNotes

NotesSpec == NotesInit /\ [][NotesNext]_vars


\* ---- DatasetLoader.split_dataset (training/dataset_loader.py) ----

\* the numbers of valid records the property test draws
MinRecords == 10
MaxRecords == 100

\* train_ratio = 0.8, val_ratio = 0.1, test_ratio = 0.1, in percent
TrainPercent == 80
ValPercent == 10
TestPercent == 10

\* rows of the CSV file that miss a transcription or a summary
MaxMissing == 1

\* self.df: rows numbered from 1, the incomplete ones first
Rows(n, missing) ==
  [i \in 1..(n + missing) |-> [id |-> i, complete |-> i > missing]]
Datasets ==
  { Rows(n, missing) : n \in MinRecords..MaxRecords, missing \in 0..MaxMissing }

\* "dropna" and the two "str.strip() != ''" filters of lines 137-141
IsComplete(row) == row.complete
clean(frame) == SelectSeq(frame, IsComplete)

\* "clean_df.sample(frac=1.0, random_state=random_state)": the rows in another
\* order, one of two the model follows
sample(frame, order) ==
  IF order = "reversed"
    THEN [i \in 1..Len(frame) |-> frame[Len(frame) + 1 - i]]
    ELSE [i \in 1..Len(frame) |-> frame[(i % Len(frame)) + 1]]

\* "int(n * ratio)" for a ratio given in percent: for the n that occur the
\* float product truncates to the integer quotient
int_of_share(n, percent) == (n * percent) \div 100

\* "clean_df.iloc[first:last]" with 0-based, end-exclusive positions
iloc(frame, first, last) == SubSeq(frame, first + 1, last)

SplitInit ==
  /\ HandlerInit({})
  /\ SegIdle
  /\ VoskIdle
  /\ NotesIdle
  /\ split_pc = "loaded"
  /\ df \in Datasets
  /\ train_df = <<>>
  /\ val_df = <<>>
  /\ test_df = <<>>

\* Lines 122-165: the rows are cleaned, shuffled if asked, and cut at
\* train_end and val_end.
split_dataset(shuffle, order) ==
  LET clean_df == IF shuffle THEN sample(clean(df), order) ELSE clean(df)
      n == Len(clean_df)
      train_end == int_of_share(n, TrainPercent)
      val_end == train_end + int_of_share(n, ValPercent)
  IN
  /\ split_pc = "loaded"
  /\ TrainPercent + ValPercent + TestPercent = 100
  /\ train_df' = iloc(clean_df, 0, train_end)
  /\ val_df' = iloc(clean_df, train_end, val_end)
  /\ test_df' = iloc(clean_df, val_end, n)
  /\ split_pc' = "split"
  /\ UNCHANGED df
  /\ UNCHANGED <<handlerVars, segVars, voskVars, notesVars>>

SplitDataset ==
  \E shuffle \in BOOLEAN, order \in {"reversed", "rotated"} : split_dataset(shuffle, order)

SplitNext == SplitDataset

SplitSpec == SplitInit /\ [][SplitNext]_vars

\* ---- vocabulary of the properties ----

\* the chunk numbers a..b in order
Ids(a, b) == [i \in 1..(b - a + 1) |-> a + i - 1]

IsBytes(f) == f.kind = "bytes"
IsStreamCall(r) == r.site \in {"threshold", "stop"}
IsStopCall(r) == r.site = "stop"
IsEngineCall(r) == r.site \in {"threshold", "stop", "file"}

RECURSIVE Flatten(_)
Flatten(ss) == IF ss = <<>> THEN <<>> ELSE Head(ss).audio \o Flatten(Tail(ss))

\* every chunk handed to the engine by a flush of connection c, in flush order
Submitted(c) == Flatten(SelectSeq(calls[c], IsStreamCall))

\* the chunks of connection c that are sent but not yet yielded to the handler
InboxChunks(c) ==
  LET bs == SelectSeq(inbox[c], IsBytes) IN [i \in 1..Len(bs) |-> bs[i].seq]

\* the chunks the handler of c has received so far
Handled(c) == Len(Submitted(c)) + Len(audio_buffer[c])

Types(ms) == [i \in 1..Len(ms) |-> ms[i].type]

Count(s, x) == Cardinality({i \in 1..Len(s) : s[i] = x})

\* this step is the handler of c taking the next frame from the connection
Yields(c) ==
  /\ pc[c] = "recv" /\ inbox[c] # <<>>
  /\ inbox'[c] = Tail(inbox[c])

\* this step is the blocking call of c returning
Returns(c, at) == pc[c] = at /\ pc'[c] # at

\* the handler of c has only ever seen binary chunks and stop messages
OnlyStreamed(c) ==
  /\ \A i \in 1..Len(calls[c]) : IsStreamCall(calls[c][i])
  /\ \A i \in 1..Len(out[c]) : out[c][i].type \in {"connected", "partial", "final"}

NoEngineRaise(c) ==
  \A i \in 1..Len(calls[c]) : calls[c][i].outcome # "raise"

\* the handler of c has finished a stop flush and has changed nothing since
JustStopFlushed(c) ==
  /\ pc[c] = "recv" /\ audio_buffer[c] = <<>>
  /\ calls[c] # <<>> /\ Last(calls[c]).site = "stop"

\* ---- C1 ----
\* C1: when the handler takes a binary chunk, no flush happens while the buffer
\* with that chunk holds fewer than Threshold chunks; the chunk that brings it
\* to Threshold starts exactly one flush, of exactly the buffered chunks, and
\* the buffer is empty right after.
C1_FlushAtThreshold ==
  [][\A c \in Conns :
       (Yields(c) /\ IsBytes(Head(inbox[c]))) =>
         LET buf == Append(audio_buffer[c], Head(inbox[c]).seq) IN
           IF Len(buf) < Threshold
             THEN /\ calls'[c] = calls[c]
                  /\ audio_buffer'[c] = buf
                  /\ pc'[c] = "recv"
             ELSE /\ Len(buf) = Threshold
                  /\ calls'[c] = Append(calls[c], Call("threshold", buf))
                  /\ audio_buffer'[c] = <<>>
                  /\ pc'[c] = "flush"]_vars

\* the tenth chunk has just been taken: one flush, empty buffer
C1_Witness ==
  \E c \in Conns :
    /\ pc[c] = "flush" /\ audio_buffer[c] = <<>>
    /\ Len(calls[c]) = 1 /\ calls[c][1].audio = Ids(1, Threshold)

\* ---- C2 ----
\* C2: on a connection that has streamed N chunks and then stop, with no engine
\* call raising and every send succeeding, the messages sent are the welcome,
\* then floor(N/Threshold) partials, the k-th for chunks 10k-9..10k and sent
\* before chunk 10k+1 is taken, then one final for the last N mod Threshold
\* chunks.
C2_PartialsThenFinal ==
  \A c \in Conns :
    (OnlyStreamed(c) /\ NoEngineRaise(c) /\ pc[c] = "recv") =>
      LET N == Handled(c)
          k == N \div Threshold
          stops == SelectSeq(calls[c], IsStopCall)
          ThresholdCall(i) ==
            [site |-> "threshold",
             audio |-> Ids(Threshold * (i - 1) + 1, Threshold * i),
             outcome |-> calls[c][i].outcome] IN
        /\ stops = <<>> =>
             /\ Len(calls[c]) = k
             /\ \A i \in 1..k : calls[c][i] = ThresholdCall(i)
             /\ Types(out[c]) = <<"connected">> \o [i \in 1..k |-> "partial"]
        /\ (Len(stops) = 1 /\ JustStopFlushed(c)) =>
             /\ N % Threshold > 0
             /\ Len(calls[c]) = k + 1
             /\ \A i \in 1..k : calls[c][i] = ThresholdCall(i)
             /\ Last(calls[c]).audio = Ids(Threshold * k + 1, N)
             /\ Types(out[c]) =
                  <<"connected">> \o [i \in 1..k |-> "partial"] \o <<"final">>

\* twelve chunks and a stop: one partial, then the final for chunks 11 and 12
C2_Witness ==
  \E c \in Conns :
    /\ JustStopFlushed(c) /\ OnlyStreamed(c) /\ NoEngineRaise(c)
    /\ Handled(c) = 12
    /\ Last(calls[c]).audio = <<11, 12>>
    /\ Types(out[c]) = <<"connected", "partial", "final">>

\* ---- C3 ----
\* C3: the chunks submitted by the flushes of a connection, in flush order,
\* followed by the chunks in its buffer and the chunks sent but not yet taken,
\* are exactly the chunks the client sent, in sending order; once a stop has
\* been taken nothing is left in the buffer.
C3_NoChunkLostOrReordered ==
  \A c \in Conns :
    /\ Submitted(c) \o audio_buffer[c] \o InboxChunks(c) = Ids(1, chunksSent[c])
    /\ (pc[c] = "stopflush" \/ JustStopFlushed(c)) =>
         Submitted(c) = Ids(1, Handled(c))

\* a stop flush is complete, a threshold flush is in flight, and a chunk that
\* arrived during it waits in the connection
C3_Witness ==
  \E c \in Conns :
    /\ pc[c] = "flush" /\ Len(calls[c]) = 2
    /\ calls[c][1].site = "stop"
    /\ InboxChunks(c) # <<>>

\* ---- C4 ----
\* C4: once "Recording stopped" has been reached for a connection the server
\* sends nothing more on it.
C4_StopIsTerminal ==
  [][\A c \in Conns : stopped[c] => out'[c] = out[c]]_vars

\* ---- C5 ----
\* C5: when the handler ends because the connection closed, every chunk it had
\* taken has been submitted to the engine: nothing is left in the buffer.
C5_CloseFlushesBuffer ==
  \A c \in Conns : pc[c] = "closed" => audio_buffer[c] = <<>>

\* ---- C6 ----
\* C6: a text frame that is not a JSON object, or an audio_file message whose
\* data is not base64, taken on an open connection, is answered with an error
\* message and the handler goes on to the next message.
IsProtocolError(f) ==
  /\ f.kind = "text"
  /\ \/ ~ParsesToObject(f)
     \/ f.type = "audio_file" /\ ~DecodesBase64(f)

C6_ProtocolErrorRecovered ==
  [][\A c \in Conns :
       (Yields(c) /\ IsProtocolError(Head(inbox[c])) /\ ~wsClosed[c]) =>
         /\ Len(out'[c]) = Len(out[c]) + 1
         /\ Last(out'[c]).type = "error"
         /\ pc'[c] = "recv"]_vars

\* ---- C7 ----
\* C7: when the engine raises in a threshold flush, a stop flush or an
\* audio_file transcription on an open connection, exactly one message is sent
\* for it, of type error, and the handler goes on to the next message.
C7_EngineErrorReported ==
  [][\A c \in Conns :
       ( /\ Returns(c, "flush") \/ Returns(c, "stopflush") \/ Returns(c, "af_transcribing")
         /\ Last(calls'[c]).outcome = "raise"
         /\ ~wsClosed[c] ) =>
         /\ Len(out'[c]) = Len(out[c]) + 1
         /\ Last(out'[c]).type = "error"
         /\ pc'[c] = "recv"]_vars

IsConvertFailed(r) == r.site = "convert" /\ r.outcome \notin {"ok", "pending"}
IsConvertOk(r) == r.site = "convert" /\ r.outcome = "ok"
IsFileFinal(m) == m.type = "final" /\ m.mode = "multilingual"
IsError(m) == m.type = "error"

C9_ConversionFailureIsolated ==
  /\ [][\A c \in Conns :
          ( /\ Returns(c, "af_converting")
            /\ IsConvertFailed(Last(calls'[c]))
            /\ ~wsClosed[c] ) =>
            /\ Len(out'[c]) = Len(out[c]) + 1
            /\ Last(out'[c]).type = "error"
            /\ pc'[c] = "recv"]_vars
  /\ [](\A c \in Conns :
          pc[c] = "recv" =>
            /\ Len(SelectSeq(out[c], IsFileFinal)) = Len(SelectSeq(calls[c], IsConvertOk))
            /\ Count(out[c], ConvertFailedReply) = Len(SelectSeq(calls[c], IsConvertFailed)))

\* a conversion failed, a later request was converted, and the handler has
\* answered both: the last two messages of the first are processing and error,
\* the last message of the second is final
C9_Witness ==
  \E c \in Conns :
    /\ pc[c] = "recv"
    /\ Len(calls[c]) = 3
    /\ IsConvertFailed(calls[c][1]) /\ IsConvertOk(calls[c][2])
    /\ Types(out[c]) = <<"connected", "processing", "error",
                         "processing", "processing", "final">>

\* ---- C10 ----
\* the handler of d can take its next message
CanTakeMessage(d) ==
  ENABLED (RecvBytes(d) \/ RecvMalformed(d) \/ RecvOther(d) \/ RecvStop(d) \/ RecvAudioFile(d))

\* C10: while a converter or engine call of one connection is in flight, the
\* handler of any other connection that waits on a message already sent to it
\* can take that message.
C10_OtherConnectionsNotStalled ==
  \A c \in Conns : \A d \in Conns \ {c} :
    ( /\ pc[c] \in {"flush", "stopflush", "af_converting", "af_transcribing"}
      /\ pc[d] = "recv" /\ inbox[d] # <<>> ) =>
      CanTakeMessage(d)

\* ---- vocabulary of the segmenter properties ----

\* the speaker label a part or a turn begins with
SpeakerOf(part) == part[1]

\* what follows "Speaker: " in a part or a turn
TextOf(part) == SubSeq(part, 4, Len(part))

Seg(start, end, text) == [start |-> start, end |-> end, text |-> text]
Turn(speaker, text) == <<speaker, ":", " ">> \o text

\* texts joined by single spaces
RECURSIVE JoinTexts(_)
JoinTexts(ts) ==
  IF ts = <<>> THEN <<>>
  ELSE IF Len(ts) = 1 THEN ts[1]
  ELSE ts[1] \o <<" ">> \o JoinTexts(Tail(ts))

\* the segments at which the speaker label differs from the one before
TurnStarts ==
  { i \in 1..Len(text_parts) :
      i = 1 \/ SpeakerOf(text_parts[i]) # SpeakerOf(text_parts[i - 1]) }

\* the segments of the j-th run of equally labelled segments
RunOf(j) ==
  { i \in 1..Len(text_parts) : Cardinality({ s \in TurnStarts : s <= i }) = j }

\* the texts of the segments first..last, each passed through f, in order
TextsOf(first, last, f(_)) ==
  [k \in 1..(last - first + 1) |-> f(all_segments[first + k - 1].text)]

RawText(t) == t

\* the j-th turn as the merge rule describes it, with f applied to each text
RunTurn(j, f(_)) ==
  LET first == CHOOSE i \in RunOf(j) : \A k \in RunOf(j) : i <= k
      last == CHOOSE i \in RunOf(j) : \A k \in RunOf(j) : k <= i
  IN Turn(SpeakerOf(text_parts[first]), JoinTexts(TextsOf(first, last, f)))

Labelled == seg_pc \in {"labelled", "returned"} /\ all_segments # <<>>
Returned == seg_pc = "returned" /\ all_segments # <<>>

\* C11: in the turn sequence the segmenter returns, no two adjacent turns
\* carry the same speaker.
C11_NoAdjacentSameSpeaker ==
  Returned =>
    \A i \in 1..(Len(merged_parts) - 1) :
      SpeakerOf(merged_parts[i]) # SpeakerOf(merged_parts[i + 1])

\* three segments were merged into two turns
C11_Witness ==
  /\ Returned
  /\ Len(all_segments) = 3
  /\ Len(merged_parts) = 2

C13_MergeJoinsStrippedTexts ==
  /\ Returned =>
       /\ Len(merged_parts) = Cardinality(TurnStarts)
       /\ \A j \in 1..Len(merged_parts) : merged_parts[j] = RunTurn(j, strip)
       /\ JoinTexts([j \in 1..Len(merged_parts) |-> TextOf(merged_parts[j])])
            = JoinTexts(TextsOf(1, Len(all_segments), strip))
  /\ (Returned /\ all_segments = <<Seg(0, 10, <<"a">>), Seg(12, 20, <<" ", "b">>)>>)
       => merged_parts = <<Turn("Therapist", <<"a", " ", "b">>)>>

\* two segments whose texts carry surrounding whitespace were merged into one
\* turn, and a third segment forms a turn of its own
C13_Witness ==
  /\ Returned
  /\ Len(all_segments) = 3
  /\ Len(merged_parts) = 2
  /\ RunOf(1) = {1, 2}
  /\ all_segments[2].text = <<" ", "b">>

\* C13 as claimed: the text of a turn is the texts of its segments, as the
\* engine returned them, joined by single spaces.
C13_MergeJoinsTexts ==
  Returned =>
    /\ Len(merged_parts) = Cardinality(TurnStarts)
    /\ \A j \in 1..Len(merged_parts) : merged_parts[j] = RunTurn(j, RawText)

\* ---- audio_file requests ----

InRequest(c) == pc[c] \in {"af_convert", "af_converting", "af_transcribe", "af_transcribing"}

\* the coroutine takes an audio_file message in this step
TakesAudioFile(c) ==
  /\ Yields(c)
  /\ Head(inbox[c]).kind = "text"
  /\ ParsesToObject(Head(inbox[c]))
  /\ Head(inbox[c]).type = "audio_file"

IsFileCall(r) == r.site \in {"convert", "file"}

\* C14: no step of an audio_file request, however the request ends, changes
\* the streaming buffer; the converter and the engine are called for the file
\* without any buffered chunk; the chunks handled so far are, in order, those
\* already submitted by a flush followed by those still in the buffer.
C14_AudioFileLeavesBuffer ==
  /\ [][\A c \in Conns :
          (TakesAudioFile(c) \/ InRequest(c)) => audio_buffer'[c] = audio_buffer[c]]_vars
  /\ [](\A c \in Conns :
          /\ \A i \in 1..Len(calls[c]) :
               IsFileCall(calls[c][i]) => calls[c][i].audio = <<>>
          /\ Submitted(c) \o audio_buffer[c] = Ids(1, Handled(c))
          /\ Handled(c) + Len(InboxChunks(c)) = chunksSent[c])

\* an audio_file request is about to send its final message while the two
\* chunks received before it are still in the buffer
C14_Witness ==
  /\ pc[1] = "af_transcribing"
  /\ audio_buffer[1] = Ids(1, 2)
  /\ Len(calls[1]) = 2

C17_LanguageChangedReply ==
  [][\A c \in Conns :
       ( /\ Yields(c)
         /\ Head(inbox[c]).kind = "text"
         /\ ParsesToObject(Head(inbox[c]))
         /\ Head(inbox[c]).type = "set_language"
         /\ ~wsClosed[c] ) =>
         /\ Len(out'[c]) = Len(out[c]) + 1
         /\ Last(out'[c]).type = "language_changed"]_vars

RequestFiles == {"upload.m4a", "converted.wav"}

\* C18: once the handler has left an audio_file request, neither the uploaded
\* file nor the converted file of the connection exists.
C18_NoTempFileOutlivesRequest ==
  \A c \in Conns : ~InRequest(c) => temp_files[c] \cap RequestFiles = {}

IsResult(m) == m.type \in {"partial", "final"}

\* C19: when a streaming flush returns whose client closed the connection while
\* the flush was in flight, the engine call has completed, no message is sent
\* and the temporary file of the flush is gone.
C19_FlushResultDiscardedAfterClose ==
  [][\A c \in Conns :
       ((Returns(c, "flush") \/ Returns(c, "stopflush")) /\ closedInFlush[c]) =>
         /\ Last(calls'[c]).outcome # "pending"
         /\ SelectSeq(out'[c], IsResult) = SelectSeq(out[c], IsResult)
         /\ "stream.wav" \notin temp_files'[c]]_vars

\* C20: a normalization call in flight can always come to an end.
C20_NormalizationCanEnd ==
  \A c \in Conns : pc[c] = "af_converting" => ENABLED ConvertReturn(c)

\* ---- set_language on the Vosk server ----

\* the coroutine takes a set_language message in this step
TakesSetLanguage ==
  /\ vosk_pc = "recv" /\ vosk_inbox # <<>>
  /\ vosk_inbox' = Tail(vosk_inbox)
  /\ Head(vosk_inbox).kind = "text"
  /\ Head(vosk_inbox).json = "object"
  /\ Head(vosk_inbox).type = "set_language"

\* the language a set_language frame names, "hindi" if it names none
Named(f) == IF f.language = "-" THEN "hindi" ELSE f.language

\* C16: a set_language message that names a language outside MODELS leaves
\* current_language and the recognizer as they were and, on an open
\* connection, is answered with one error message after which the handler
\* waits for the next message; once set up, current_language is in MODELS and
\* the recognizer is the one of current_language.
C16_UnknownLanguageRejected ==
  /\ [][(TakesSetLanguage /\ Named(Head(vosk_inbox)) \notin MODELS) =>
          /\ current_language' = current_language
          /\ recognizer' = recognizer
          /\ ~vosk_closed =>
               /\ vosk_out' = Append(vosk_out, VoskMsg("error", "-", "Unknown language"))
               /\ vosk_pc' = "recv"]_vars
  /\ [](vosk_pc \in {"recv", "closed"} =>
          /\ current_language \in MODELS
          /\ recognizer.language = current_language)

\* the language was changed to english, a chunk was fed, then an unknown
\* language was refused: the handler waits for the next message with the
\* english recognizer and the chunk it holds
C16_Witness ==
  /\ vosk_pc = "recv"
  /\ current_language = "english"
  /\ recognizer = [language |-> "english", fed |-> 1]
  /\ Len(vosk_out) >= 3
  /\ vosk_out[2].type = "language_changed"
  /\ vosk_out[Len(vosk_out)].type = "error"
  /\ vosk_out[Len(vosk_out)].text = "Unknown language"

\* ---- C21 ----
\* what the coroutine of connection d holds: its position, buffer, messages
\* sent, calls made, temporary files and whether it has seen a stop
Private(d) == <<pc[d], audio_buffer[d], out[d], calls[d], temp_files[d], stopped[d]>>

\* this step is a step of the coroutine of c
StepOf(c) == Yields(c) \/ pc'[c] # pc[c]

\* the chunks the coroutine of c has handed to the engine or still buffers
Held(c) == Submitted(c) \o audio_buffer[c]

Untouched(c) ==
  /\ audio_buffer[c] = <<>> /\ calls[c] = <<>> /\ temp_files[c] = {}
  /\ ~stopped[c] /\ out[c] = <<>>

\* C22: on every connection the first message the server sends is the
\* connected welcome and it is sent once; until it is sent the coroutine has
\* processed no chunk and no control message, and a coroutine that has sent
\* nothing was stopped by the failed welcome itself.
C22_WelcomeFirstAndOnce ==
  \A c \in Conns :
    /\ out[c] # <<>> =>
          /\ out[c][1] = [type |-> "connected", text |-> "-", mode |-> "multilingual",
                          message |-> "Faster-Whisper multilingual transcription server ready"]
          /\ Count(Types(out[c]), "connected") = 1
    /\ pc[c] \in {"absent", "accept"} => Untouched(c)
    /\ out[c] = <<>> => (Untouched(c) /\ pc[c] \in {"absent", "accept", "failed"})

\* a connection whose welcome was followed by the reply to a flush
C22_Witness ==
  \E c \in Conns :
    /\ Len(out[c]) >= 2 /\ out[c][1].type = "connected"
    /\ calls[c] # <<>> /\ stopped[c]

\* ---- C24 ----
\* C24: a call with no segments returns the sentinel and builds no turn; a
\* call with one segment returns exactly one turn, the Therapist's, whatever
\* the start of the segment; and the first turn of every call with segments is
\* the Therapist's.
C24_SegmenterEdgeCases ==
  seg_pc = "returned" =>
    /\ all_segments = <<>> =>
          /\ text_parts = <<>> /\ merged_parts = <<>>
          /\ seg_result = <<"(No speech detected)">>
    /\ Len(all_segments) = 1 =>
          /\ Len(merged_parts) = 1
          /\ merged_parts[1] = <<"Therapist", ":", " ">> \o strip(all_segments[1].text)
          /\ seg_result = merged_parts[1]
    /\ all_segments # <<>> =>
          /\ merged_parts # <<>>
          /\ SpeakerOf(merged_parts[1]) = "Therapist"
          /\ StartsWith(seg_result, <<"Therapist", ":", " ">>)

\* a single segment that starts long after time 0 has been returned as the
\* Therapist's turn
C24_Witness ==
  /\ seg_pc = "returned" /\ Len(all_segments) = 1
  /\ all_segments[1].start > GapThreshold
  /\ merged_parts = <<<<"Therapist", ":", " ", "a">>>>

\* a call without segments has returned
C24_WitnessNoSpeech ==
  seg_pc = "returned" /\ all_segments = <<>> /\ seg_result = <<Sentinel>>

\* ---- C26 ----
\* the speaker (0 or 1) of segment i of this call as the segments of this call
\* alone decide it: segment 1 is speaker 0, a later segment changes the speaker
\* exactly when the segment before ended after time 0 and more than the gap
\* threshold before it starts
RECURSIVE SpeakerFromThisCall(_)
SpeakerFromThisCall(i) ==
  IF i = 1 THEN 0
  ELSE LET before == all_segments[i - 1]
           toggles == before.end > 0 /\ all_segments[i].start - before.end > GapThreshold
       IN IF toggles THEN 1 - SpeakerFromThisCall(i - 1) ELSE SpeakerFromThisCall(i - 1)

\* the segments at which, by the segments of this call alone, the speaker
\* differs from the one before
ChangesFromThisCall ==
  { i \in 2..Len(all_segments) : SpeakerFromThisCall(i) # SpeakerFromThisCall(i - 1) }

\* C26: whatever flush went before on the connection, the labels of a call
\* are those its own segments decide, starting from speaker 0 with no earlier
\* end time, and the turns and the returned text are built from these labels
\* alone.
C26_SegmenterStateless ==
  /\ Labelled =>
        \A i \in 1..Len(all_segments) :
          text_parts[i] =
            <<IF SpeakerFromThisCall(i) = 0 THEN "Therapist" ELSE "Patient", ":", " ">>
              \o strip(all_segments[i].text)
  /\ Returned =>
        /\ Len(merged_parts) = 1 + Cardinality(ChangesFromThisCall)
        /\ \A j \in 1..Len(merged_parts) :
             SpeakerOf(merged_parts[j]) = (IF j % 2 = 1 THEN "Therapist" ELSE "Patient")

\* the flush before ended with the Patient, and the first segment of this call
\* starts more than the gap threshold after that flush's last segment ended
C26_Witness ==
  /\ Returned
  /\ earlier_segments = <<[start |-> 0, end |-> 10, text |-> <<"a">>],
                          [start |-> 20, end |-> 30, text |-> <<"a">>]>>
  /\ all_segments[1].start - 30 > GapThreshold
  /\ Len(merged_parts) = 1

\* ---- C25 ----
\* the first progress message of an audio_file request: its payload decoded
IsRequestStart(m) == m.type = "processing" /\ m.message = "Converting audio format..."

\* the message that ends an audio_file request whose payload decoded
IsTerminal(m) ==
  \/ IsFileFinal(m)
  \/ (IsError(m) /\ m.message = "Failed to convert audio format.")

Started(c) == Len(SelectSeq(out[c], IsRequestStart))
Terminated(c) == Len(SelectSeq(out[c], IsTerminal))

\* no audio_file request is answered by more than one terminal message, a
\* coroutine back at the loop has answered every request it started, and
\* every terminal message directly follows a progress message
AtMostOneTerminal ==
  \A c \in Conns :
    /\ Terminated(c) <= Started(c) /\ Started(c) <= Terminated(c) + 1
    /\ pc[c] = "recv" => Terminated(c) = Started(c)
    /\ InRequest(c) => Started(c) = Terminated(c) + 1
    /\ \A i \in 1..Len(out[c]) :
          IsTerminal(out[c][i]) => (i > 1 /\ out[c][i - 1].type = "processing")

\* C25: every audio_file request whose payload decoded is answered by exactly
\* one terminal message, final or error, after its progress messages: never
\* two, and a request in flight can still get its answer.
C25_ExactlyOneTerminal ==
  /\ AtMostOneTerminal
  /\ \A c \in Conns :
        pc[c] \in {"af_converting", "af_transcribing"} =>
          ENABLED (ConvertReturn(c) \/ TranscribeReturn(c))

\* ---- C27 ----
\* the coroutine takes a stop message in this step
TakesStop(c) ==
  /\ Yields(c)
  /\ Head(inbox[c]).kind = "text"
  /\ ParsesToObject(Head(inbox[c]))
  /\ Head(inbox[c]).type = "stop"

\* C27: a stop taken while the buffer is empty sends no message, starts no
\* engine call, writes no temporary file and leaves the buffer empty; the
\* coroutine waits for the next message.
C27_StopOnEmptyBufferIsSilent ==
  [][\A c \in Conns :
       (TakesStop(c) /\ audio_buffer[c] = <<>>) =>
         /\ out'[c] = out[c]
         /\ calls'[c] = calls[c]
         /\ temp_files'[c] = temp_files[c]
         /\ audio_buffer'[c] = <<>>
         /\ pc'[c] = "recv" /\ running' = running]_vars

\* a stop was taken directly after a threshold flush: the reply to that flush
\* is the last message sent and the flush is the only engine call
C27_Witness ==
  \E c \in Conns :
    /\ stopped[c] /\ pc[c] = "recv" /\ audio_buffer[c] = <<>>
    /\ Len(calls[c]) = 1 /\ calls[c][1].site = "threshold"
    /\ Len(calls[c][1].audio) = Threshold
    /\ Types(out[c]) = <<"connected", "partial">>

\* ---- C28 ----
\* the coroutine takes a JSON object whose type no branch tests for
TakesUnknownType(c) ==
  /\ Yields(c)
  /\ Head(inbox[c]).kind = "text"
  /\ Head(inbox[c]).json = "object"
  /\ Head(inbox[c]).type \in {"set_language", "other"}

\* C28: a JSON object whose type is neither audio_file nor stop, set_language
\* included, makes the Whisper server send nothing, call nothing and write
\* nothing; the buffer is as it was and the coroutine waits for the next
\* message.
C28_UnknownTypeIgnored ==
  [][\A c \in Conns :
       TakesUnknownType(c) =>
         /\ out'[c] = out[c]
         /\ audio_buffer'[c] = audio_buffer[c]
         /\ calls'[c] = calls[c]
         /\ temp_files'[c] = temp_files[c]
         /\ stopped'[c] = stopped[c]
         /\ pc'[c] = "recv" /\ running' = running]_vars

\* the only text message of a connection with buffered chunks has been taken
\* and nothing but the welcome was ever sent: it was one of unknown type
C28_Witness ==
  \E c \in Conns :
    /\ textsSent[c] = 1 /\ inbox[c] = <<>> /\ pc[c] = "recv"
    /\ audio_buffer[c] # <<>> /\ calls[c] = <<>> /\ ~stopped[c]
    /\ Types(out[c]) = <<"connected">>

\* the same on the Vosk server: a type other than set_language, audio_file
\* and stop changes neither the messages sent nor the language nor the
\* recognizer
VoskUnknownTypeIgnored ==
  [][( /\ vosk_pc = "recv" /\ vosk_inbox # <<>>
       /\ vosk_inbox' = Tail(vosk_inbox)
       /\ Head(vosk_inbox).kind = "text"
       /\ Head(vosk_inbox).json = "object"
       /\ Head(vosk_inbox).type = "other" ) =>
         /\ vosk_out' = vosk_out
         /\ current_language' = current_language
         /\ recognizer' = recognizer
         /\ vosk_pc' = "recv"]_vars

\* ---- C23 ----
\* this step serves a request to the endpoint for the session row
Serves(endpoint) ==
  /\ utcnow' # utcnow
  /\ notes_response'.endpoint = endpoint
  /\ notes_response'.session_id = 1

NotesMetadata ==
  <<notes_is_ai_generated, notes_edited_from_ai, notes_generated_at, notes_last_edited_at>>

\* C23: generate-notes with regenerate=false on a session with non-empty
\* notes is answered 400 and leaves the notes and the four metadata columns
\* as they were; generation replaces existing notes only when the request has
\* regenerate=true.
C23_NotesOverwriteProtection ==
  [][Serves("generate") =>
       /\ (notes \notin {None, ""} /\ ~notes_response'.regenerate) =>
             /\ notes_response'.status = 400
             /\ notes' = notes
             /\ NotesMetadata' = NotesMetadata
       /\ (notes \notin {None, ""} /\ <<notes, NotesMetadata>>' # <<notes, NotesMetadata>>) =>
             /\ notes_response'.regenerate
             /\ notes_response'.status = 200]_vars

\* generate-notes without regenerate has just been refused on a session that
\* holds generated notes
C23_Witness ==
  /\ notes_response.endpoint = "generate" /\ notes_response.session_id = 1
  /\ ~notes_response.regenerate /\ notes_response.status = 400
  /\ notes \in {"generated 1", "generated 2"}
  /\ notes_is_ai_generated /\ notes_generated_at # 0

\* ---- C29 ----
\* C29: an update with is_ai_generated=false whose text differs from notes
\* that are AI-generated leaves is_ai_generated true and sets edited_from_ai;
\* and after any sequence of generate and update requests edited_from_ai
\* implies is_ai_generated.
C29_NotesMetadataTracking ==
  /\ [](notes_edited_from_ai => notes_is_ai_generated)
  /\ [][( /\ Serves("update")
          /\ notes_is_ai_generated
          /\ notes_response'.notes # notes
          /\ ~notes_response'.is_ai_generated ) =>
            /\ notes' = notes_response'.notes
            /\ notes_is_ai_generated' /\ notes_edited_from_ai'
            /\ notes_response'.status = 200]_vars

\* generated notes have been replaced by typed text
C29_Witness ==
  /\ notes_response.endpoint = "update" /\ notes_response.status = 200
  /\ ~notes_response.is_ai_generated
  /\ notes = "typed 1"
  /\ notes_is_ai_generated /\ notes_edited_from_ai
  /\ notes_generated_at # 0 /\ notes_last_edited_at > notes_generated_at

\* ---- C30 ----
\* the records of a data frame
RecordsOf(frame) == { frame[i].id : i \in 1..Len(frame) }

\* the valid records of the loaded data set
ValidRecords == { df[i].id : i \in { j \in 1..Len(df) : df[j].complete } }

\* part holds between low and high percent of n records
ShareWithin(part, n, low, high) ==
  low * n <= 100 * Len(part) /\ 100 * Len(part) <= high * n

\* the three parts are pairwise disjoint, hold each valid record once and
\* nothing else, and train and validation have the truncated shares
SplitIsPartition ==
  split_pc = "split" =>
    LET n == Cardinality(ValidRecords) IN
    /\ RecordsOf(train_df) \cap RecordsOf(val_df) = {}
    /\ RecordsOf(train_df) \cap RecordsOf(test_df) = {}
    /\ RecordsOf(val_df) \cap RecordsOf(test_df) = {}
    /\ RecordsOf(train_df) \cup RecordsOf(val_df) \cup RecordsOf(test_df) = ValidRecords
    /\ Len(train_df) + Len(val_df) + Len(test_df) = n
    /\ Len(train_df) = (8 * n) \div 10
    /\ Len(val_df) = n \div 10

\* C30: for every data set of 10 to 100 valid records split 0.8/0.1/0.1 the
\* parts are pairwise disjoint, their sizes sum to n, train holds between 75%
\* and 85% of the records and validation and test between 5% and 15% each.
C30_SplitProportions ==
  (split_pc = "split" /\ Cardinality(ValidRecords) \in 10..100) =>
    LET n == Cardinality(ValidRecords) IN
    /\ RecordsOf(train_df) \cap RecordsOf(val_df) = {}
    /\ RecordsOf(train_df) \cap RecordsOf(test_df) = {}
    /\ RecordsOf(val_df) \cap RecordsOf(test_df) = {}
    /\ Len(train_df) + Len(val_df) + Len(test_df) = n
    /\ ShareWithin(train_df, n, 75, 85)
    /\ ShareWithin(val_df, n, 5, 15)
    /\ ShareWithin(test_df, n, 5, 15)

\* the bands hold for every size but eight
C30_SplitProportionsElsewhere ==
  (split_pc = "split" /\ Cardinality(ValidRecords) \in (10..100) \ {11, 12, 13, 16, 17, 18, 19, 26}) =>
    LET n == Cardinality(ValidRecords) IN
    /\ ShareWithin(train_df, n, 75, 85)
    /\ ShareWithin(val_df, n, 5, 15)
    /\ ShareWithin(test_df, n, 5, 15)
====
